---- MODULE Spec2Model ----
(***************************************************************************)
(* Model of the storage layer of the test-management server                *)
(* (src/server/storage.ts): the persistent adapter SupabaseStorage over    *)
(* the relational schema of src/unnamed/part_000, and the in-memory        *)
(* adapter MemStorage.  Tables are sets of rows (records); every storage   *)
(* method is one action that performs all of the method's round trips,     *)
(* with the round trip that the store answers with an error chosen by the  *)
(* input failAt (0: none).                                                 *)
(***************************************************************************)
EXTENDS Integers, Sequences, FiniteSets, TLC

\* ------------------------------------------------------------------ bounds
MaxTc == 2
MaxUser == 2
MaxStepId == 2
MaxVersionRows == 2
MaxVersionNo == 3
MaxUpdates == 2
MaxFolder == 2
MaxRun == 1
MaxResults == 2
MaxTime == 2
MaxMemRun == 1
MaxMemResults == 2
MaxMemAssigns == 3
MaxLogs == 2
MaxClock == 3
MaxMemFolders == 2
MaxMemTc == 1

\* ------------------------------------------------------- program constants
\* A nullable timestamp column that holds null (last_run: null).
NullTime == 0
\* version: integer("version").notNull().default(1)
DefaultVersion == 1
\* duration of a run that was never completed (null)
NullDuration == -1
\* the clock counts units of 750 ms: milliseconds in one unit of the clock and
\* in one second
MsPerTick == 750
MsPerSecond == 1000
\* MemStorage's constructor creates three test cases (ids 1..3), so the
\* counter test_case_id is 4 when the constructor returns.
MemFirstFreeTcId == 4
\* MemStorage's constructor creates three folders (ids 1..3).
MemFolderCount == 3
\* The constructor calls assignTestCaseToFolder three times, so the counter
\* testCaseFolderId is 4 when it returns.
MemFirstFreeAssocId == 4
\* ... and folderId and testStepId after the constructor's three folders
\* and thirteen steps
MemFirstFreeFolderId == 4
MemFirstFreeStepId == 14

Users == 1..MaxUser
Titles == {"Login", "Reset"}
\* status of a run result: passed, failed, blocked, skipped
ResultStatuses == {"passed", "failed"}

\* The steps arrays a caller supplies: each step carries the caller's
\* step_number and description.
StepArrays ==
  { << >>,
    << [step_number |-> 1, description |-> "open page"] >>,
    << [step_number |-> 1, description |-> "open page"],
       [step_number |-> 2, description |-> "submit creds"] >> }

\* A steps array whose step carries a step_number that is not its position.
MisnumberedStepArrays ==
  { << [step_number |-> 2, description |-> "open page"] >> }

\* Partial<InsertTestCase>: the columns a patch may carry.
TitlePatches == { [title |-> t] : t \in Titles }
StatusPatches == { [status |-> "failed"] }
Patches == TitlePatches \cup StatusPatches

VARIABLES
  \* the tables of the persistent store
  test_cases, test_steps, test_versions, test_case_folders, folders,
  test_runs, test_run_results,
  \* the store's serial sequences (next id of each table)
  tcSeq, stepSeq, versionSeq, folderSeq, runSeq, resultSeq,
  \* MemStorage's maps and id counters
  memTestCases, memTestRuns, memTestRunResults,
  mem_test_case_id, mem_testRunId, mem_test_run_result_id,
  memTestCaseFolders, mem_testCaseFolderId,
  memFolders, mem_folderId, memTestSteps, mem_testStepId,
  \* the activity_logs table (its number of rows) and the promise
  \* rejections of the server process that nothing handled
  activity_logs, unhandledRejections,
  \* the updateTestCase calls in flight, one per caller
  calls,
  \* the wall clock (new Date(), the store's now())
  now,
  \* history: the last storage call with its result, and the number of
  \* successful updateTestCase calls per test case id
  lastOp, nUpdates

dbVars == << test_cases, test_steps, test_versions, test_case_folders, folders,
             test_runs, test_run_results,
             tcSeq, stepSeq, versionSeq, folderSeq, runSeq, resultSeq >>
memFolderVars == << memTestCaseFolders, mem_testCaseFolderId >>
memEntityVars == << memFolders, mem_folderId, memTestSteps, mem_testStepId >>
memVars == << memTestCases, memTestRuns, memTestRunResults,
              mem_test_case_id, mem_testRunId, mem_test_run_result_id,
              memFolderVars, memEntityVars >>
logVars == << activity_logs, unhandledRejections >>
vars == << dbVars, memVars, logVars, calls, now, lastOp, nUpdates >>

\* ----------------------------------------------------------------- helpers
Ids(tbl) == { r.id : r \in tbl }
RowOf(tbl, id) == CHOOSE r \in tbl : r.id = id

\* A row with the columns of `payload` that the row has overwritten
\* ({...row, ...payload} restricted to the table's columns).
Merge(row, payload) ==
  [c \in DOMAIN row |-> IF c \in DOMAIN payload THEN payload[c] ELSE row[c]]

StepsOf(id) == { s \in test_steps : s.test_case_id = id }
VersionsOf(id) == { v \in test_versions : v.test_case_id = id }
FoldersOf(id) == { a \in test_case_folders : a.test_case_id = id }
ResultsOf(id) == { r \in test_run_results : r.test_case_id = id }

\* The data column of a snapshot: the content fields of a test case row.
Content(row) == [title |-> row.title, status |-> row.status]

\* All the orders in which a select without order by may return `rows`.
Orders(rows) ==
  { f \in [1..Cardinality(rows) -> rows] :
      \A i, j \in 1..Cardinality(rows) : i # j => f[i] # f[j] }

\* A test_cases row is referenced by a foreign key of another table
\* (no ON DELETE / ON UPDATE action is declared, so the store refuses to
\* delete the row or change its key while a referencing row exists).
Referenced(id, steps) ==
  \/ \E s \in steps : s.test_case_id = id
  \/ VersionsOf(id) # {}
  \/ FoldersOf(id) # {}
  \/ ResultsOf(id) # {}

\* The two clients whose requests the server handles at the same time.
Callers == {"A", "B"}

\* A caller's updateTestCase call: pc is the round trip it is about to make
\* ("idle" before the call, "done" after it returned); v0 the version of the
\* test case when the call began; wrote the place of its row update among
\* the row updates of the callers (0: none yet); conc whether another call
\* was in flight during this one; ret whether it returned the test case.
NoCall ==
  [pc |-> "idle", id |-> 0, data |-> << >>, hasSteps |-> FALSE,
   steps |-> << >>, v0 |-> 0, wrote |-> 0, conc |-> FALSE, ret |-> FALSE]

Op(op, id, arg, st, ret, fail) ==
  [op |-> op, id |-> id, arg |-> arg, st |-> st, ret |-> ret, fail |-> fail,
   applied |-> 0, at |-> NullTime, hasSteps |-> FALSE, steps |-> << >>,
   again |-> FALSE, memRet |-> ret, reply |-> 0, logFail |-> FALSE,
   rows |-> {}, stepRows |-> {}, thrown |-> FALSE, trips |-> 0]

\* The test cases MemStorage's constructor creates.
MemSeedTestCases ==
  { [id |-> 1, title |-> "User Login Verification", status |-> "passed",
     created_by |-> 1, version |-> 1, last_run |-> NullTime],
    [id |-> 2, title |-> "Password Reset Flow", status |-> "failed",
     created_by |-> 1, version |-> 1, last_run |-> NullTime],
    [id |-> 3, title |-> "User Registration Form Validation",
     status |-> "pending", created_by |-> 1, version |-> 1,
     last_run |-> NullTime] }

\* The folders MemStorage's constructor creates.
MemSeedFolders ==
  { [id |-> 1, name |-> "Regression Tests"],
    [id |-> 2, name |-> "Smoke Tests"],
    [id |-> 3, name |-> "Feature Tests"] }

\* The steps the constructor's createTestCase calls store: three for test
\* case 1, five each for test cases 2 and 3, ids in the order of creation
\* (the descriptions are left out).
MemSeedTestSteps ==
  { [id |-> i, test_case_id |-> 1, step_number |-> i, description |-> ""] :
      i \in 1..3 }
  \cup { [id |-> 3 + i, test_case_id |-> 2, step_number |-> i,
          description |-> ""] : i \in 1..5 }
  \cup { [id |-> 8 + i, test_case_id |-> 3, step_number |-> i,
          description |-> ""] : i \in 1..5 }

\* The folder sets MemStorage's constructor leaves: test cases 1 and 2 in
\* folder 1, test case 3 in folder 2 (folder 3 has no set yet).
MemSeedTestCaseFolders ==
  (1 :> {1, 2}) @@ (2 :> {3})

Init ==
  /\ test_cases = {} /\ test_steps = {} /\ test_versions = {}
  /\ test_case_folders = {} /\ folders = {}
  /\ test_runs = {} /\ test_run_results = {}
  /\ tcSeq = 1 /\ stepSeq = 1 /\ versionSeq = 1 /\ folderSeq = 1
  /\ runSeq = 1 /\ resultSeq = 1
  /\ memTestCases = MemSeedTestCases
  /\ memTestRuns = {} /\ memTestRunResults = << >>
  /\ mem_test_case_id = MemFirstFreeTcId
  /\ mem_testRunId = 1 /\ mem_test_run_result_id = 1
  /\ memTestCaseFolders = MemSeedTestCaseFolders
  /\ mem_testCaseFolderId = MemFirstFreeAssocId
  /\ memFolders = MemSeedFolders /\ mem_folderId = MemFirstFreeFolderId
  /\ memTestSteps = MemSeedTestSteps /\ mem_testStepId = MemFirstFreeStepId
  /\ activity_logs = 0 /\ unhandledRejections = 0
  /\ calls = [p \in Callers |-> NoCall]
  /\ now = 1
  /\ lastOp = Op("init", 0, 0, "", TRUE, 0)
  /\ nUpdates = [i \in 1..MaxTc |-> 0]

\* ------------------------------------------------ SupabaseStorage: test cases

\* The rows insert(stepsWithtest_case_id) adds: ids from the serial sequence,
\* step_number and description as the caller gave them.
StepRows(id, steps, seq) ==
  { [id |-> seq + i - 1, test_case_id |-> id,
     step_number |-> steps[i].step_number,
     description |-> steps[i].description] : i \in 1..Len(steps) }

\* createTestCase: insert the row (the store fills id, version, last_run),
\* then, when steps is non-empty, insert the steps.  Either error is thrown;
\* a failed steps insert leaves the test case row behind.
createTestCase(tc, steps, failAt) ==
  LET row == [id |-> tcSeq, title |-> tc.title, status |-> tc.status,
              created_by |-> tc.created_by, version |-> DefaultVersion,
              last_run |-> NullTime]
  IN IF failAt = 1
       THEN [ret |-> FALSE, id |-> 0, cases |-> test_cases, steps |-> test_steps]
     ELSE IF Len(steps) > 0 /\ failAt = 2
       THEN [ret |-> FALSE, id |-> tcSeq, cases |-> test_cases \cup {row},
             steps |-> test_steps]
     ELSE [ret |-> TRUE, id |-> tcSeq, cases |-> test_cases \cup {row},
           steps |-> test_steps \cup StepRows(tcSeq, steps, stepSeq)]

CreateTestCaseOf(stepArrays) ==
  \E t \in {"Login"}, s \in {"pending"}, u \in {1}, steps \in stepArrays,
     failAt \in 0..2 :
    /\ tcSeq <= MaxTc
    /\ stepSeq + Len(steps) - 1 <= MaxStepId
    /\ failAt = 2 => Len(steps) > 0
    /\ LET o == createTestCase([title |-> t, status |-> s, created_by |-> u],
                               steps, failAt)
       IN /\ test_cases' = o.cases
          /\ test_steps' = o.steps
          /\ tcSeq' = IF o.id = 0 THEN tcSeq ELSE tcSeq + 1
          /\ stepSeq' = IF o.ret THEN stepSeq + Len(steps) ELSE stepSeq
          /\ lastOp' = [Op("createTestCase", o.id, 0, s, o.ret, failAt)
                          EXCEPT !.hasSteps = TRUE, !.steps = steps]
    /\ UNCHANGED << test_versions, test_case_folders, folders, test_runs,
                    test_run_results, versionSeq, folderSeq, runSeq, resultSeq,
                    memVars, now, nUpdates, logVars, calls >>

\* createTestCase with any of the steps arrays.
CreateTestCase == CreateTestCaseOf(StepArrays)

\* createTestCase with a steps array numbered by the caller, rightly or not.
CreateNumberedTestCase ==
  CreateTestCaseOf(StepArrays \cup MisnumberedStepArrays)

\* createTestCase with an empty steps array.
CreateBareTestCase == CreateTestCaseOf({<< >>})

\* An updateTestCase that replaces the steps only when the array is not
\* empty (the test createTestCase applies to its steps).
updateTestCaseSkippingEmpty(id, data, hasSteps, steps, failAt) ==
  IF failAt = 1 \/ id \notin Ids(test_cases)
    THEN [ret |-> FALSE, cases |-> test_cases, steps |-> test_steps]
  ELSE
    LET old == RowOf(test_cases, id)
        cases1 == (test_cases \ {old}) \cup {Merge(old, data)}
        steps1 == test_steps \ StepsOf(id)
    IN IF ~hasSteps \/ Len(steps) = 0
         THEN [ret |-> TRUE, cases |-> cases1, steps |-> test_steps]
       ELSE IF failAt = 2
         THEN [ret |-> FALSE, cases |-> cases1, steps |-> test_steps]
       ELSE IF failAt = 3
         THEN [ret |-> FALSE, cases |-> cases1, steps |-> steps1]
       ELSE [ret |-> TRUE, cases |-> cases1,
             steps |-> steps1 \cup StepRows(id, steps, stepSeq)]

\* An updateTestCase that inserts the new steps without deleting the old.
updateTestCaseAppending(id, data, hasSteps, steps, failAt) ==
  IF failAt = 1 \/ id \notin Ids(test_cases)
    THEN [ret |-> FALSE, cases |-> test_cases, steps |-> test_steps]
  ELSE
    LET old == RowOf(test_cases, id)
        cases1 == (test_cases \ {old}) \cup {Merge(old, data)}
    IN IF ~hasSteps
         THEN [ret |-> TRUE, cases |-> cases1, steps |-> test_steps]
       ELSE IF failAt \in {2, 3}
         THEN [ret |-> FALSE, cases |-> cases1, steps |-> test_steps]
       ELSE [ret |-> TRUE, cases |-> cases1,
             steps |-> test_steps \cup StepRows(id, steps, stepSeq)]

\* An updateTestCase that does not look at the answer to the row update: on
\* an id that no row has it goes on to replace the steps and returns the
\* (absent) row.
updateTestCaseUnchecked(id, data, hasSteps, steps, failAt) ==
  LET cases1 == { IF r.id = id THEN Merge(r, data) ELSE r : r \in test_cases }
      steps1 == test_steps \ StepsOf(id)
  IN IF failAt = 1
       THEN [ret |-> FALSE, cases |-> test_cases, steps |-> test_steps]
     ELSE IF ~hasSteps
       THEN [ret |-> id \in Ids(test_cases), cases |-> cases1,
             steps |-> test_steps]
     ELSE IF failAt = 2
       THEN [ret |-> FALSE, cases |-> cases1, steps |-> test_steps]
     ELSE IF failAt = 3
       THEN [ret |-> FALSE, cases |-> cases1, steps |-> steps1]
     ELSE [ret |-> id \in Ids(test_cases), cases |-> cases1,
           steps |-> steps1 \cup StepRows(id, steps, stepSeq)]

\* updateTestCase: update(data).eq("id", id).select().single() (an error,
\* also when no row has the id, returns undefined); then, when steps is
\* given, delete the test case's steps and insert the new ones, returning
\* undefined at the first error and leaving what was already written.
updateTestCase(id, data, hasSteps, steps, failAt) ==
  IF failAt = 1 \/ id \notin Ids(test_cases)
    THEN [ret |-> FALSE, cases |-> test_cases, steps |-> test_steps]
  ELSE
    LET old == RowOf(test_cases, id)
        cases1 == (test_cases \ {old}) \cup {Merge(old, data)}
        steps1 == test_steps \ StepsOf(id)
    IN IF ~hasSteps
         THEN [ret |-> TRUE, cases |-> cases1, steps |-> test_steps]
       ELSE IF failAt = 2
         THEN [ret |-> FALSE, cases |-> cases1, steps |-> test_steps]
       ELSE IF failAt = 3
         THEN [ret |-> FALSE, cases |-> cases1, steps |-> steps1]
       ELSE [ret |-> TRUE, cases |-> cases1,
             steps |-> steps1 \cup StepRows(id, steps, stepSeq)]

\* History: this call passes the steps array that the call before it, a
\* successful updateTestCase of the same test case, passed.
SameStepsAgain(id, hasSteps, steps) ==
  /\ lastOp.op = "updateTestCase" /\ lastOp.id = id
  /\ lastOp.ret /\ lastOp.hasSteps
  /\ hasSteps /\ steps = lastOp.steps

UpdateTestCaseOf(patches, stepsGiven) ==
  \E id \in 1..MaxTc, data \in patches, hasSteps \in stepsGiven,
     steps \in StepArrays, failAt \in 0..3 :
    /\ ~hasSteps => (steps = << >> /\ failAt <= 1)
    /\ stepSeq + Len(steps) - 1 <= MaxStepId
    /\ nUpdates[id] < MaxUpdates
    /\ LET o == updateTestCase(id, data, hasSteps, steps, failAt)
       IN /\ test_cases' = o.cases
          /\ test_steps' = o.steps
          /\ stepSeq' = IF o.ret /\ hasSteps THEN stepSeq + Len(steps) ELSE stepSeq
          /\ nUpdates' = IF o.ret THEN [nUpdates EXCEPT ![id] = @ + 1] ELSE nUpdates
          /\ lastOp' = [Op("updateTestCase", id, 0, "", o.ret, failAt)
                          EXCEPT !.hasSteps = hasSteps, !.steps = steps,
                                 !.again = SameStepsAgain(id, hasSteps, steps)]
    /\ UNCHANGED << test_versions, test_case_folders, folders, test_runs,
                    test_run_results, tcSeq, versionSeq, folderSeq, runSeq,
                    resultSeq, memVars, now, logVars, calls >>

\* updateTestCase with any patch, with and without a steps argument.
UpdateTestCase == UpdateTestCaseOf(Patches, BOOLEAN)

\* updateTestCase with the title it already has, with and without steps.
UpdateSteps == UpdateTestCaseOf({[title |-> "Login"]}, BOOLEAN)

\* updateTestCase called without a steps argument.
UpdateFields == UpdateTestCaseOf(Patches, {FALSE})

\* updateTestCase called with a new title and no steps argument.
UpdateTitle == UpdateTestCaseOf(TitlePatches, {FALSE})

\* A deleteTestCase that does not look at the answer to the row delete: it
\* returns true after the steps are gone, whether the row went or not.
deleteTestCaseUnchecked(id, failAt) ==
  IF failAt = 1
    THEN [ret |-> FALSE, cases |-> test_cases, steps |-> test_steps]
  ELSE
    LET steps1 == test_steps \ StepsOf(id)
    IN IF failAt = 2 \/ (id \in Ids(test_cases) /\ Referenced(id, steps1))
         THEN [ret |-> TRUE, cases |-> test_cases, steps |-> steps1]
       ELSE [ret |-> TRUE,
             cases |-> { r \in test_cases : r.id # id }, steps |-> steps1]

\* deleteTestCase: delete the steps, then the row; an error at either round
\* trip returns false.  The store refuses the row delete (an error) while a
\* row of another table still references the test case.
deleteTestCase(id, failAt) ==
  IF failAt = 1
    THEN [ret |-> FALSE, cases |-> test_cases, steps |-> test_steps]
  ELSE
    LET steps1 == test_steps \ StepsOf(id)
    IN IF failAt = 2 \/ (id \in Ids(test_cases) /\ Referenced(id, steps1))
         THEN [ret |-> FALSE, cases |-> test_cases, steps |-> steps1]
       ELSE [ret |-> TRUE,
             cases |-> { r \in test_cases : r.id # id }, steps |-> steps1]

DeleteTestCase ==
  \E id \in 1..MaxTc, failAt \in 0..2 :
    LET o == deleteTestCase(id, failAt)
    IN /\ test_cases' = o.cases
       /\ test_steps' = o.steps
       /\ lastOp' = Op("deleteTestCase", id, 0, "", o.ret, failAt)
       /\ UNCHANGED << test_versions, test_case_folders, folders, test_runs,
                       test_run_results, tcSeq, stepSeq, versionSeq, folderSeq,
                       runSeq, resultSeq, memVars, now, nUpdates, logVars,
                       calls >>

\* ---------------------------------------------- SupabaseStorage: versions

\* createTestVersion: insert one test_versions row; an error (also the
\* store's refusal of a test_case_id that is no test case) is thrown.
createTestVersion(version, fail) ==
  IF fail \/ version.test_case_id \notin Ids(test_cases)
    THEN [ret |-> FALSE, versions |-> test_versions]
  ELSE [ret |-> TRUE,
        versions |-> test_versions \cup
          { [id |-> versionSeq, test_case_id |-> version.test_case_id,
             version |-> version.version, data |-> version.data,
             created_by |-> version.created_by] }]

\* The caller snapshots the test case as it is when it calls (the data
\* column is the "full snapshot of the test case at this version") and
\* chooses the version number.
CreateTestVersion ==
  \E id \in 1..MaxTc, v \in 2..MaxVersionNo, u \in Users, fail \in BOOLEAN :
    /\ versionSeq <= MaxVersionRows
    /\ id \in Ids(test_cases)
    /\ LET o == createTestVersion(
                  [test_case_id |-> id, version |-> v,
                   data |-> Content(RowOf(test_cases, id)), created_by |-> u],
                  fail)
       IN /\ test_versions' = o.versions
          /\ versionSeq' = IF o.ret THEN versionSeq + 1 ELSE versionSeq
          /\ lastOp' = Op("createTestVersion", id, v, "", o.ret,
                          IF fail THEN 1 ELSE 0)
    /\ UNCHANGED << test_cases, test_steps, test_case_folders, folders,
                    test_runs, test_run_results, tcSeq, stepSeq, folderSeq,
                    runSeq, resultSeq, memVars, now, nUpdates, logVars,
                    calls >>

\* revertToVersion: select the test case's snapshots (in the order the store
\* returns them), return false when there are none, then update the
\* test_cases row with versions[version - 1], the snapshot ROW at that
\* position (undefined when the position is past the end), and return true
\* unless the store answered with an error.  What the store answers to this
\* payload is not decided by the method: failAt = 2 is the store answering
\* the update with an error (for any reason, a payload it rejects included);
\* otherwise it applies the columns of the payload that test_cases has (id,
\* version, created_by), an update that matches no row or carries no payload
\* changes nothing, and a change of the key of a row that test_versions rows
\* reference is refused.
revertToVersion(test_case_id, version, versions, failAt) ==
  IF failAt = 1 \/ Len(versions) = 0
    THEN [ret |-> FALSE, cases |-> test_cases, applied |-> 0]
  ELSE IF failAt = 2
    THEN [ret |-> FALSE, cases |-> test_cases, applied |-> 0]
  ELSE IF version \notin 1..Len(versions)
    THEN [ret |-> TRUE, cases |-> test_cases, applied |-> 0]
  ELSE
    LET payload == versions[version]
    IN IF test_case_id \notin Ids(test_cases)
         THEN [ret |-> TRUE, cases |-> test_cases, applied |-> 0]
       ELSE IF payload.id # test_case_id
         THEN [ret |-> FALSE, cases |-> test_cases, applied |-> 0]
       ELSE LET old == RowOf(test_cases, test_case_id)
            IN [ret |-> TRUE,
                cases |-> (test_cases \ {old}) \cup {Merge(old, payload)},
                applied |-> payload.id]

RevertToVersion ==
  \E id \in 1..MaxTc, version \in 1..MaxVersionNo, failAt \in 0..2 :
    \E versions \in Orders(VersionsOf(id)) :
      LET o == revertToVersion(id, version, versions, failAt)
      IN /\ test_cases' = o.cases
         /\ lastOp' = [Op("revertToVersion", id, version, "", o.ret, failAt)
                          EXCEPT !.applied = o.applied]
         /\ UNCHANGED << test_steps, test_versions, test_case_folders, folders,
                         test_runs, test_run_results, tcSeq, stepSeq,
                         versionSeq, folderSeq, runSeq, resultSeq, memVars,
                         now, nUpdates, logVars, calls >>

\* ------------------------------------------------ SupabaseStorage: folders

\* createFolder: insert one folders row; an error is thrown.
createFolder(fail) ==
  IF fail THEN [ret |-> FALSE, folders |-> folders]
  ELSE [ret |-> TRUE, folders |-> folders \cup {[id |-> folderSeq]}]

CreateFolder ==
  \E fail \in BOOLEAN :
    /\ folderSeq <= MaxFolder
    /\ LET o == createFolder(fail)
       IN /\ folders' = o.folders
          /\ folderSeq' = IF o.ret THEN folderSeq + 1 ELSE folderSeq
          /\ lastOp' = Op("createFolder", 0, 0, "", o.ret, IF fail THEN 1 ELSE 0)
    /\ UNCHANGED << test_cases, test_steps, test_versions, test_case_folders,
                    test_runs, test_run_results, tcSeq, stepSeq, versionSeq,
                    runSeq, resultSeq, memVars, now, nUpdates, logVars,
                    calls >>

\* The test_case_folders table: a row references a test case and a folder,
\* and the pair is unique (test_case_folder_idx).  SupabaseStorage has no
\* method that inserts into it (the route's assignTestCaseToFolder call is
\* commented out); rows reach the table through the store, which admits an
\* insert exactly when it keeps the table's constraints.
InsertTestCaseFolder ==
  \E tc \in Ids(test_cases), f \in Ids(folders) :
    /\ ~\E a \in test_case_folders : a.test_case_id = tc /\ a.folderId = f
    /\ test_case_folders' =
         test_case_folders \cup {[test_case_id |-> tc, folderId |-> f]}
    /\ lastOp' = Op("insertTestCaseFolder", tc, f, "", TRUE, 0)
    /\ UNCHANGED << test_cases, test_steps, test_versions, folders, test_runs,
                    test_run_results, tcSeq, stepSeq, versionSeq, folderSeq,
                    runSeq, resultSeq, memVars, now, nUpdates, logVars,
                    calls >>

\* removeTestCaseFromFolder: delete the test_case_folders rows of the pair;
\* false when the store answers with an error, true otherwise (also when
\* the delete matched no row).
removeTestCaseFromFolder(test_case_id, folderId, fail) ==
  IF fail THEN [ret |-> FALSE, assoc |-> test_case_folders]
  ELSE [ret |-> TRUE,
        assoc |-> { a \in test_case_folders :
                      ~(a.test_case_id = test_case_id /\ a.folderId = folderId) }]

RemoveTestCaseFromFolder ==
  \E tc \in 1..MaxTc, f \in 1..MaxFolder, fail \in BOOLEAN :
    LET o == removeTestCaseFromFolder(tc, f, fail)
    IN /\ test_case_folders' = o.assoc
       /\ lastOp' = Op("removeTestCaseFromFolder", tc, f, "", o.ret,
                       IF fail THEN 1 ELSE 0)
       /\ UNCHANGED << test_cases, test_steps, test_versions, folders,
                       test_runs, test_run_results, tcSeq, stepSeq, versionSeq,
                       folderSeq, runSeq, resultSeq, memVars, now, nUpdates,
                       logVars, calls >>

\* Whether the store holds the association of a test case and a folder.
Assigned(test_case_id, folderId) ==
  \E a \in test_case_folders :
    a.test_case_id = test_case_id /\ a.folderId = folderId

\* --------------------------------------- SupabaseStorage: runs and results

\* createTestRun: insert one test_runs row (started_at defaults to now()).
createTestRun(fail) ==
  IF fail THEN [ret |-> FALSE, runs |-> test_runs]
  ELSE [ret |-> TRUE,
        runs |-> test_runs \cup
                   {[id |-> runSeq, started_at |-> now,
                     status |-> "in_progress", complete_at |-> NullTime,
                     duration |-> NullDuration]}]

CreateTestRun ==
  \E fail \in BOOLEAN :
    /\ runSeq <= MaxRun
    /\ LET o == createTestRun(fail)
       IN /\ test_runs' = o.runs
          /\ runSeq' = IF o.ret THEN runSeq + 1 ELSE runSeq
          /\ lastOp' = Op("createTestRun", 0, 0, "", o.ret, IF fail THEN 1 ELSE 0)
    /\ UNCHANGED << test_cases, test_steps, test_versions, test_case_folders,
                    folders, test_run_results, tcSeq, stepSeq, versionSeq,
                    folderSeq, resultSeq, memVars, now, nUpdates, logVars,
                    calls >>

\* The run was completed by an earlier call.
CompletedBefore(runs, id) ==
  \E r \in runs : r.id = id /\ r.status = "completed"

\* getTime(): the milliseconds of an instant of the clock.
getTime(t) == t * MsPerTick

\* Math.floor(durationMs / 1000)
durationSeconds(startTime, endTime) == (endTime - startTime) \div MsPerSecond

\* A completeTestRun that rounds the duration up to whole seconds.
completeTestRunRoundingUp(id, failAt) ==
  IF failAt # 0 \/ id \notin Ids(test_runs)
    THEN [ret |-> FALSE, runs |-> test_runs]
    ELSE [ret |-> TRUE,
          runs |-> { IF r.id = id
                       THEN Merge(r, [status |-> "completed",
                                      complete_at |-> now,
                                      duration |->
                                        (getTime(now) - getTime(r.started_at)
                                           + MsPerSecond - 1)
                                          \div MsPerSecond])
                       ELSE r : r \in test_runs }]

\* completeTestRun: read the clock; select the run (error or no row:
\* undefined); update status, complete_at and duration of the row (error:
\* undefined).  failAt: 0 = no error, 1 = the select, 2 = the update.
completeTestRun(id, failAt) ==
  IF failAt = 1 \/ id \notin Ids(test_runs) \/ failAt = 2
    THEN [ret |-> FALSE, runs |-> test_runs]
    ELSE [ret |-> TRUE,
          runs |-> { IF r.id = id
                       THEN Merge(r, [status |-> "completed",
                                      complete_at |-> now,
                                      duration |->
                                        durationSeconds(getTime(r.started_at),
                                                        getTime(now))])
                       ELSE r : r \in test_runs }]

CompleteTestRun ==
  \E id \in 1..(MaxRun + 1), failAt \in 0..2 :
    /\ id \notin Ids(test_runs) => failAt = 0
    /\ LET o == completeTestRun(id, failAt)
       IN /\ test_runs' = o.runs
          /\ lastOp' = [Op("completeTestRun", id, 0, "", o.ret, failAt)
                          EXCEPT !.again = CompletedBefore(test_runs, id)]
    /\ UNCHANGED << test_cases, test_steps, test_versions, test_case_folders,
                    folders, test_run_results, tcSeq, stepSeq, versionSeq,
                    folderSeq, runSeq, resultSeq, memVars, now, nUpdates,
                    logVars, calls >>

\* updateTestCaseStatus: update({ status }).eq("id", test_case_id); an error
\* is logged and swallowed.
updateTestCaseStatus(test_case_id, status, fail) ==
  IF fail THEN test_cases
  ELSE { IF r.id = test_case_id THEN Merge(r, [status |-> status]) ELSE r :
           r \in test_cases }

\* createTestRunResult: insert the result row (executed_at defaults to
\* now(); the store refuses a run_id or test_case_id that references no
\* row), throwing on an error; then update the test case's status.
createTestRunResult(result, failAt) ==
  IF \/ failAt = 1
     \/ result.runId \notin Ids(test_runs)
     \/ result.test_case_id \notin Ids(test_cases)
    THEN [ret |-> FALSE, results |-> test_run_results, cases |-> test_cases]
  ELSE [ret |-> TRUE,
        results |-> test_run_results \cup
          { [id |-> resultSeq, runId |-> result.runId,
             test_case_id |-> result.test_case_id, status |-> result.status,
             executed_at |-> now] },
        cases |-> updateTestCaseStatus(result.test_case_id, result.status,
                                       failAt = 2)]

CreateTestRunResultOf(failures) ==
  \E runId \in 1..(MaxRun + 1), tc \in 1..(MaxTc + 1), s \in ResultStatuses,
     failAt \in failures :
    /\ resultSeq <= MaxResults
    /\ LET o == createTestRunResult(
                  [runId |-> runId, test_case_id |-> tc, status |-> s], failAt)
       IN /\ test_run_results' = o.results
          /\ test_cases' = o.cases
          /\ resultSeq' = IF o.ret THEN resultSeq + 1 ELSE resultSeq
          /\ lastOp' = [Op("createTestRunResult", tc, runId, s, o.ret, failAt)
                          EXCEPT !.at = IF o.ret THEN now ELSE NullTime]
    /\ UNCHANGED << test_steps, test_versions, test_case_folders, folders,
                    test_runs, tcSeq, stepSeq, versionSeq, folderSeq, runSeq,
                    memVars, now, nUpdates, logVars, calls >>

\* createTestRunResult with an error at any of its round trips, or at none.
CreateTestRunResult == CreateTestRunResultOf(0..2)

\* createTestRunResult when the store answers every round trip.
RecordResult == CreateTestRunResultOf({0})

\* The clock advances.
Tick ==
  /\ now < MaxTime
  /\ now' = now + 1
  /\ UNCHANGED << dbVars, memVars, lastOp, nUpdates, logVars, calls >>

\* The clock advances by one unit while runs are executed.
Elapse ==
  /\ now < MaxClock
  /\ now' = now + 1
  /\ UNCHANGED << dbVars, memVars, lastOp, nUpdates, logVars, calls >>

\* ------------------------------------------------------------ MemStorage

\* createTestRun: the next id, started_at read from the clock.
memCreateTestRun ==
  [id |-> mem_testRunId, started_at |-> now, status |-> "in_progress",
   complete_at |-> NullTime, duration |-> NullDuration]

MemCreateTestRun ==
  /\ mem_testRunId <= MaxMemRun
  /\ memTestRuns' = memTestRuns \cup {memCreateTestRun}
  /\ mem_testRunId' = mem_testRunId + 1
  /\ lastOp' = Op("mem.createTestRun", mem_testRunId, 0, "", TRUE, 0)
  /\ UNCHANGED << dbVars, memTestCases, memTestRunResults, mem_test_case_id,
                  mem_test_run_result_id, memFolderVars, now, nUpdates,
                  logVars, calls, memEntityVars >>

\* completeTestRun: undefined when the run is not in the map; else read the
\* clock and set status, complete_at and duration of the run in place.
memCompleteTestRun(id) ==
  IF id \notin Ids(memTestRuns)
    THEN [ret |-> FALSE, runs |-> memTestRuns]
    ELSE [ret |-> TRUE,
          runs |-> { IF r.id = id
                       THEN Merge(r, [status |-> "completed",
                                      complete_at |-> now,
                                      duration |->
                                        durationSeconds(getTime(r.started_at),
                                                        getTime(now))])
                       ELSE r : r \in memTestRuns }]

MemCompleteTestRun ==
  \E id \in 1..(MaxMemRun + 1) :
    /\ LET o == memCompleteTestRun(id)
       IN /\ memTestRuns' = o.runs
          /\ lastOp' = [Op("mem.completeTestRun", id, 0, "", o.ret, 0)
                          EXCEPT !.again = CompletedBefore(memTestRuns, id)]
    /\ UNCHANGED << dbVars, memTestCases, memTestRunResults, mem_test_case_id,
                    mem_testRunId, mem_test_run_result_id, memFolderVars, now,
                    nUpdates, logVars, calls, memEntityVars >>

\* createTestRunResult: take the next id, stamp executed_at, append the
\* result to the list kept under result.runId (created when missing), then,
\* when the test case exists, set its status and set last_run from a second
\* reading of the clock (t2).
memCreateTestRunResult(result, t2) ==
  LET newResult == [id |-> mem_test_run_result_id, runId |-> result.runId,
                    test_case_id |-> result.test_case_id,
                    status |-> result.status, executed_at |-> now]
      lists == IF result.runId \in DOMAIN memTestRunResults
                 THEN memTestRunResults
                 ELSE memTestRunResults @@ (result.runId :> << >>)
  IN [ret |-> TRUE,
      results |-> [lists EXCEPT ![result.runId] = Append(@, newResult)],
      cases |-> { IF r.id = result.test_case_id
                    THEN Merge(r, [status |-> result.status, last_run |-> t2])
                    ELSE r : r \in memTestCases }]

MemResultCount ==
  mem_test_run_result_id - 1

MemCreateTestRunResult ==
  \E runId \in 1..(MaxMemRun + 1), tc \in 1..MemFirstFreeTcId,
     s \in ResultStatuses, t2 \in {now, now + 1} :
    /\ MemResultCount < MaxMemResults
    /\ t2 <= MaxTime
    /\ tc \notin Ids(memTestCases) => t2 = now
    /\ LET o == memCreateTestRunResult(
                  [runId |-> runId, test_case_id |-> tc, status |-> s], t2)
       IN /\ memTestRunResults' = o.results
          /\ memTestCases' = o.cases
          /\ mem_test_run_result_id' = mem_test_run_result_id + 1
          /\ now' = t2
          /\ lastOp' = [Op("mem.createTestRunResult", tc, runId, s, o.ret, 0)
                          EXCEPT !.at = now]
    /\ UNCHANGED << dbVars, memTestRuns, mem_test_case_id, mem_testRunId,
                    memFolderVars, nUpdates, logVars, calls, memEntityVars >>

\* ---------------------------------------------------- MemStorage: folders

\* An assignTestCaseToFolder that treats an already assigned pair as an
\* error instead of a no-op.
memAssignRejectingRepeat(test_case_id, folderId) ==
  LET sets == IF folderId \in DOMAIN memTestCaseFolders
                THEN memTestCaseFolders
                ELSE memTestCaseFolders @@ (folderId :> {})
  IN IF test_case_id \in sets[folderId]
       THEN [ret |-> FALSE, id |-> 0, sets |-> sets]
     ELSE [ret |-> TRUE, id |-> mem_testCaseFolderId,
           sets |-> [sets EXCEPT ![folderId] = @ \cup {test_case_id}]]

\* assignTestCaseToFolder: create the folder's set when it is missing; when
\* the set has the test case, return a record with the next association id;
\* otherwise add the test case and return a record with the next id.
memAssignTestCaseToFolder(test_case_id, folderId) ==
  LET sets == IF folderId \in DOMAIN memTestCaseFolders
                THEN memTestCaseFolders
                ELSE memTestCaseFolders @@ (folderId :> {})
  IN IF test_case_id \in sets[folderId]
       THEN [ret |-> TRUE, id |-> mem_testCaseFolderId, sets |-> sets]
     ELSE [ret |-> TRUE, id |-> mem_testCaseFolderId,
           sets |-> [sets EXCEPT ![folderId] = @ \cup {test_case_id}]]

MemAssignTestCaseToFolder ==
  \E tc \in 1..(MemFirstFreeTcId - 1), f \in 1..MemFolderCount :
    /\ mem_testCaseFolderId < MemFirstFreeAssocId + MaxMemAssigns
    /\ LET o == memAssignTestCaseToFolder(tc, f)
       IN /\ memTestCaseFolders' = o.sets
          /\ mem_testCaseFolderId' = mem_testCaseFolderId + 1
          /\ lastOp' = [Op("mem.assignTestCaseToFolder", tc, f, "", o.ret, 0)
                          EXCEPT !.applied = o.id]
    /\ UNCHANGED << dbVars, memTestCases, memTestRuns, memTestRunResults,
                    mem_test_case_id, mem_testRunId, mem_test_run_result_id,
                    now, nUpdates, logVars, calls, memEntityVars >>

\* removeTestCaseFromFolder: false when the folder has no set; otherwise
\* Set.delete, which tells whether the test case was in the set.
memRemoveTestCaseFromFolder(test_case_id, folderId) ==
  IF folderId \notin DOMAIN memTestCaseFolders
    THEN [ret |-> FALSE, sets |-> memTestCaseFolders]
  ELSE [ret |-> test_case_id \in memTestCaseFolders[folderId],
        sets |-> [memTestCaseFolders EXCEPT ![folderId] = @ \ {test_case_id}]]

MemRemoveTestCaseFromFolder ==
  \E tc \in 1..(MemFirstFreeTcId - 1), f \in 1..MemFolderCount :
    LET o == memRemoveTestCaseFromFolder(tc, f)
    IN /\ memTestCaseFolders' = o.sets
       /\ lastOp' = Op("mem.removeTestCaseFromFolder", tc, f, "", o.ret, 0)
       /\ UNCHANGED << dbVars, memTestCases, memTestRuns, memTestRunResults,
                       mem_test_case_id, mem_testRunId, mem_test_run_result_id,
                       mem_testCaseFolderId, now, nUpdates, logVars, calls,
                       memEntityVars >>

\* Whether MemStorage holds the association of a test case and a folder.
MemAssigned(test_case_id, folderId) ==
  /\ folderId \in DOMAIN memTestCaseFolders
  /\ test_case_id \in memTestCaseFolders[folderId]

\* A createFolder that numbers the folder by the size of the map.
memCreateFolderBySize(folder) ==
  [id |-> Cardinality(memFolders) + 1, name |-> folder.name]

\* createFolder: the folder with the next id of the counter.
memCreateFolder(folder) ==
  [id |-> mem_folderId, name |-> folder.name]

MemCreateFolder ==
  \E name \in {"Sprint"} :
    /\ mem_folderId < MemFirstFreeFolderId + MaxMemFolders
    /\ LET r == memCreateFolder([name |-> name])
       IN /\ memFolders' = { o \in memFolders : o.id # r.id } \cup {r}
          /\ lastOp' = [Op("mem.createFolder", r.id, 0, "", TRUE, 0)
                          EXCEPT !.applied = r.id]
    /\ mem_folderId' = mem_folderId + 1
    /\ UNCHANGED << dbVars, memTestCases, memTestRuns, memTestRunResults,
                    mem_test_case_id, mem_testRunId, mem_test_run_result_id,
                    memFolderVars, memTestSteps, mem_testStepId, now,
                    nUpdates, logVars, calls >>

\* deleteFolder: Map.delete on the folders map, which tells whether the
\* folder was there; nothing else is touched.
memDeleteFolder(id) ==
  [ret |-> id \in Ids(memFolders),
   folders |-> { r \in memFolders : r.id # id }]

MemDeleteFolder ==
  \E id \in 1..(MemFirstFreeFolderId + MaxMemFolders - 1) :
    /\ LET o == memDeleteFolder(id)
       IN /\ memFolders' = o.folders
          /\ lastOp' = Op("mem.deleteFolder", id, 0, "", o.ret, 0)
    /\ UNCHANGED << dbVars, memTestCases, memTestRuns, memTestRunResults,
                    mem_test_case_id, mem_testRunId, mem_test_run_result_id,
                    memFolderVars, mem_folderId, memTestSteps, mem_testStepId,
                    now, nUpdates, logVars, calls >>

\* getTestCountByFolder: one entry per key of the testCaseFolders map.
memGetTestCountByFolder(sets) ==
  { [folderId |-> f, testCount |-> Cardinality(sets[f])] : f \in DOMAIN sets }

\* getTestCaseFolders: the folders whose set has the test case and that
\* are in the folders map.
memGetTestCaseFolders(test_case_id, sets, fmap) ==
  { r \in fmap : r.id \in DOMAIN sets /\ test_case_id \in sets[r.id] }

\* createTestCase: the next id of the counter, version 1, last_run null;
\* when steps is not empty, its steps with the next ids of the step counter
\* and step_number by position.
memCreateTestCase(tc, steps) ==
  [row |-> [id |-> mem_test_case_id, title |-> tc.title,
            status |-> tc.status, created_by |-> tc.created_by,
            version |-> DefaultVersion, last_run |-> NullTime],
   stepRows |-> { [id |-> mem_testStepId + i - 1,
                   test_case_id |-> mem_test_case_id, step_number |-> i,
                   description |-> steps[i].description] :
                    i \in 1..Len(steps) }]

MemCreateTestCase ==
  \E t \in Titles, steps \in StepArrays \cup MisnumberedStepArrays :
    /\ mem_test_case_id < MemFirstFreeTcId + MaxMemTc
    /\ LET o == memCreateTestCase(
                  [title |-> t, status |-> "pending", created_by |-> 1], steps)
       IN /\ memTestCases' =
               { r \in memTestCases : r.id # o.row.id } \cup {o.row}
          /\ memTestSteps' =
               { s \in memTestSteps :
                   Len(steps) = 0 \/ s.test_case_id # o.row.id }
               \cup o.stepRows
          /\ lastOp' = [Op("mem.createTestCase", o.row.id, 0, "", TRUE, 0)
                          EXCEPT !.applied = o.row.id, !.steps = steps]
    /\ mem_test_case_id' = mem_test_case_id + 1
    /\ mem_testStepId' = mem_testStepId + Len(steps)
    /\ UNCHANGED << dbVars, memTestRuns, memTestRunResults, mem_testRunId,
                    mem_test_run_result_id, memFolderVars, memFolders,
                    mem_folderId, now, nUpdates, logVars, calls >>

\* ------------------------------------------------ SupabaseStorage: reads

\* What a read hands to its caller: data, the rows returned (none for
\* undefined and for []); stepRows, the steps returned with a test case;
\* thrown, whether the call was rejected with an error; trips, the round
\* trips to the store the call made.
Answer(data, stepRows, trips) ==
  [data |-> data, stepRows |-> stepRows, thrown |-> FALSE, trips |-> trips]

\* getTestCase: select().eq("id", id).single(); an error (a store error, or
\* no row) is logged and undefined is returned.
getTestCase(id, fail) ==
  IF fail \/ id \notin Ids(test_cases)
    THEN Answer({}, {}, 1)
    ELSE Answer({RowOf(test_cases, id)}, {}, 1)

\* getTestSteps: select().eq("test_case_id", id); an error is logged and []
\* is returned.
getTestSteps(test_case_id, fail) ==
  IF fail THEN Answer({}, {}, 1)
  ELSE Answer(StepsOf(test_case_id), {}, 1)

\* getTestCaseWithSteps: getTestCase, undefined when it gave undefined; else
\* getTestSteps.  failAt: 0 = no error, 1 = the test case read, 2 = the
\* steps read.
getTestCaseWithSteps(id, failAt) ==
  LET testCase == getTestCase(id, failAt = 1)
      steps == getTestSteps(id, failAt = 2)
  IN IF testCase.data = {}
       THEN Answer({}, {}, testCase.trips)
       ELSE Answer(testCase.data, steps.data, testCase.trips + steps.trips)

\* A read leaves every table as it is and hands `a` to the caller.
Read(op, id, failAt, a) ==
  /\ lastOp' = [Op(op, id, 0, "", a.data # {}, failAt)
                  EXCEPT !.rows = a.data, !.stepRows = a.stepRows,
                         !.thrown = a.thrown, !.trips = a.trips]
  /\ UNCHANGED << dbVars, memVars, logVars, calls, now, nUpdates >>

GetTestCase ==
  \E id \in 1..MaxTc, fail \in BOOLEAN :
    Read("getTestCase", id, IF fail THEN 1 ELSE 0, getTestCase(id, fail))

GetTestSteps ==
  \E id \in 1..MaxTc, fail \in BOOLEAN :
    Read("getTestSteps", id, IF fail THEN 1 ELSE 0, getTestSteps(id, fail))

GetTestCaseWithSteps ==
  \E id \in 1..MaxTc, failAt \in 0..2 :
    /\ failAt = 2 => id \in Ids(test_cases)
    /\ Read("getTestCaseWithSteps", id, failAt,
            getTestCaseWithSteps(id, failAt))

\* The columns of the test_cases table.
TestCaseColumns == DOMAIN
  [id |-> 0, title |-> "", status |-> "", created_by |-> 0, version |-> 0,
   last_run |-> NullTime]

\* getTestCases: select() from test_cases, with .eq("status", status) when
\* the status filter is set and .eq("folderId", folderId) when the folder
\* filter is set; an error is logged and [] is returned.  The store answers
\* a filter on a column the table does not have with an error.  "" and 0
\* stand for a filter that is not set.
getTestCases(status, folderId, fail) ==
  IF fail \/ (folderId # 0 /\ "folderId" \notin TestCaseColumns)
    THEN Answer({}, {}, 1)
    ELSE Answer({ r \in test_cases : status # "" => r.status = status },
                {}, 1)

\* GET /api/testcases: the status filter is set unless the query's status is
\* missing or "all", the folder filter when the query's folderId is a
\* number other than 0; the rows getTestCases returns are the reply.
ListTestCases ==
  \E status \in {"", "all", "pending", "failed"}, folderId \in 0..MaxFolder,
     fail \in BOOLEAN :
    LET st == IF status = "all" THEN "" ELSE status
        a == getTestCases(st, folderId, fail)
    IN /\ lastOp' = [Op("GET /api/testcases", 0, folderId, st, ~fail,
                        IF fail THEN 1 ELSE 0)
                       EXCEPT !.rows = a.data, !.thrown = a.thrown,
                              !.trips = a.trips, !.reply = 200]
       /\ UNCHANGED << dbVars, memVars, logVars, calls, now, nUpdates >>

\* updateTestCase called with a new status and no steps argument.
UpdateStatus == UpdateTestCaseOf(StatusPatches, {FALSE})

\* -------------------------- SupabaseStorage: updateTestCase, call by call

\* The round trips of updateTestCase are separate requests to the store:
\* between two of them the requests of another call may be served.

InFlight(p) == calls[p].pc \in {"row", "delete", "insert"}

\* A caller calls updateTestCase(id, data, steps).
UpdateCall ==
  \E p \in Callers, id \in 1..MaxTc, data \in Patches, hasSteps \in BOOLEAN,
     steps \in StepArrays :
    /\ calls[p].pc = "idle"
    /\ id \in Ids(test_cases)
    /\ ~hasSteps => steps = << >>
    /\ calls' =
         [q \in Callers |->
            IF q = p
              THEN [NoCall EXCEPT !.pc = "row", !.id = id, !.data = data,
                                  !.hasSteps = hasSteps, !.steps = steps,
                                  !.v0 = RowOf(test_cases, id).version,
                                  !.conc = \E o \in Callers : InFlight(o)]
              ELSE IF InFlight(q) THEN [calls[q] EXCEPT !.conc = TRUE]
              ELSE calls[q]]
    /\ UNCHANGED << dbVars, memVars, logVars, now, lastOp, nUpdates >>

\* First round trip: update(data).eq("id", id).select().single(); on an
\* error the call returns undefined; without a steps argument it returns
\* the updated row.
UpdateRow ==
  \E p \in Callers, fail \in BOOLEAN :
    LET c == calls[p]
        ok == ~fail /\ c.id \in Ids(test_cases)
    IN /\ c.pc = "row"
       /\ test_cases' =
            IF ok
              THEN { IF r.id = c.id THEN Merge(r, c.data) ELSE r :
                       r \in test_cases }
              ELSE test_cases
       /\ calls' =
            [calls EXCEPT
               ![p] = IF ~ok THEN [c EXCEPT !.pc = "done", !.ret = FALSE]
                      ELSE [c EXCEPT
                              !.pc = IF c.hasSteps THEN "delete" ELSE "done",
                              !.ret = ~c.hasSteps,
                              !.wrote = 1 + Cardinality(
                                 {q \in Callers : calls[q].wrote # 0})]]
       /\ UNCHANGED << test_steps, test_versions, test_case_folders, folders,
                       test_runs, test_run_results, tcSeq, stepSeq, versionSeq,
                       folderSeq, runSeq, resultSeq, memVars, logVars, now,
                       lastOp, nUpdates >>

\* Second round trip: delete().eq("test_case_id", id) on test_steps; on an
\* error the call returns undefined.
UpdateDeleteSteps ==
  \E p \in Callers, fail \in BOOLEAN :
    LET c == calls[p]
    IN /\ c.pc = "delete"
       /\ test_steps' = IF fail THEN test_steps
                        ELSE test_steps \ StepsOf(c.id)
       /\ calls' = [calls EXCEPT
                      ![p] = IF fail THEN [c EXCEPT !.pc = "done"]
                             ELSE [c EXCEPT !.pc = "insert"]]
       /\ UNCHANGED << test_cases, test_versions, test_case_folders, folders,
                       test_runs, test_run_results, tcSeq, stepSeq, versionSeq,
                       folderSeq, runSeq, resultSeq, memVars, logVars, now,
                       lastOp, nUpdates >>

\* Third round trip: insert(stepsWithtest_case_id) into test_steps; on an
\* error the call returns undefined, else the row of the first round trip.
UpdateInsertSteps ==
  \E p \in Callers, fail \in BOOLEAN :
    LET c == calls[p]
    IN /\ c.pc = "insert"
       /\ stepSeq + Len(c.steps) - 1 <= MaxStepId
       /\ test_steps' = IF fail THEN test_steps
                        ELSE test_steps \cup StepRows(c.id, c.steps, stepSeq)
       /\ stepSeq' = IF fail THEN stepSeq ELSE stepSeq + Len(c.steps)
       /\ calls' = [calls EXCEPT ![p] = [c EXCEPT !.pc = "done",
                                                  !.ret = ~fail]]
       /\ UNCHANGED << test_cases, test_versions, test_case_folders, folders,
                       test_runs, test_run_results, tcSeq, versionSeq,
                       folderSeq, runSeq, resultSeq, memVars, logVars, now,
                       lastOp, nUpdates >>

\* getTestVersions: select().eq("test_case_id", id) on test_versions; an
\* error is logged and [] is returned.
getTestVersions(test_case_id, fail) ==
  IF fail THEN Answer({}, {}, 1)
  ELSE Answer(VersionsOf(test_case_id), {}, 1)

\* GET /api/testcases/:id/versions: 404 when getTestCase finds nothing; else
\* the rows getTestVersions returns are the reply.  failAt: 1 = the test
\* case read, 2 = the versions read.
GetVersionsRoute ==
  \E id \in 1..MaxTc, failAt \in 0..2 :
    LET found == getTestCase(id, failAt = 1).data # {}
        a == getTestVersions(id, failAt = 2)
    IN /\ failAt = 2 => getTestCase(id, FALSE).data # {}
       /\ lastOp' = [Op("GET /api/testcases/:id/versions", id, 0, "", found,
                        failAt)
                       EXCEPT !.rows = IF found THEN a.data ELSE {},
                              !.reply = IF found THEN 200 ELSE 404]
       /\ UNCHANGED << dbVars, memVars, logVars, calls, now, nUpdates >>

\* ------------------------------------------------------------- routes

\* logActivity: insert one activity_logs row; an error is thrown, that is,
\* the promise the call returns is rejected.
logActivity(fail) ==
  IF fail THEN [ret |-> FALSE, logs |-> activity_logs]
  ELSE [ret |-> TRUE, logs |-> activity_logs + 1]

\* The routes call storage.logActivity(...) without await and without
\* .catch: the handler goes on at once, and a rejection of the promise
\* reaches no try/catch of the handler (the try around the call in POST
\* /api/testcases catches only what the call throws before it returns its
\* promise, which an async function never does).
LogUnawaited(logFail) ==
  /\ activity_logs' = logActivity(logFail).logs
  /\ unhandledRejections' =
       IF logActivity(logFail).ret THEN unhandledRejections
       ELSE unhandledRejections + 1

\* POST /api/testcases: createTestCase with created_by 1, then the activity
\* log, then 201; what createTestCase throws is answered with 400.
PostTestCase ==
  \E title \in Titles, steps \in StepArrays, failAt \in 0..2,
     logFail \in BOOLEAN :
    /\ tcSeq <= MaxTc
    /\ stepSeq + Len(steps) - 1 <= MaxStepId
    /\ failAt = 2 => Len(steps) > 0
    /\ activity_logs + unhandledRejections < MaxLogs
    /\ LET o == createTestCase(
                  [title |-> title, status |-> "pending", created_by |-> 1],
                  steps, failAt)
       IN /\ test_cases' = o.cases
          /\ test_steps' = o.steps
          /\ tcSeq' = IF o.id = 0 THEN tcSeq ELSE tcSeq + 1
          /\ stepSeq' = IF o.ret THEN stepSeq + Len(steps) ELSE stepSeq
          /\ IF o.ret
               THEN LogUnawaited(logFail)
               ELSE /\ ~logFail
                    /\ UNCHANGED logVars
          /\ lastOp' = [Op("POST /api/testcases", o.id, 0, "", o.ret, failAt)
                          EXCEPT !.reply = IF o.ret THEN 201 ELSE 400,
                                 !.logFail = logFail]
    /\ UNCHANGED << test_versions, test_case_folders, folders, test_runs,
                    test_run_results, versionSeq, folderSeq, runSeq, resultSeq,
                    memVars, now, nUpdates, calls >>

\* DELETE /api/testcases/:id: 404 when getTestCase finds nothing; then
\* deleteTestCase; when it returned true, read req.user.id (a TypeError,
\* answered by the catch with 500, when no user is logged in: the
\* authentication middleware lets every request through), log the activity
\* and answer 200; when it returned false answer 500.
DeleteTestCaseRoute ==
  \E id \in 1..MaxTc, failAt \in 0..2, loggedIn \in BOOLEAN,
     logFail \in BOOLEAN :
    /\ activity_logs + unhandledRejections < MaxLogs
    /\ IF id \notin Ids(test_cases)
         THEN /\ failAt = 0 /\ loggedIn /\ ~logFail
              /\ lastOp' = [Op("DELETE /api/testcases/:id", id, 0, "", FALSE, 0)
                              EXCEPT !.reply = 404]
              /\ UNCHANGED << test_cases, test_steps, logVars, calls >>
         ELSE LET o == deleteTestCase(id, failAt)
              IN /\ test_cases' = o.cases
                 /\ test_steps' = o.steps
                 /\ IF o.ret /\ loggedIn
                      THEN LogUnawaited(logFail)
                      ELSE /\ ~logFail
                           /\ UNCHANGED logVars
                 /\ ~o.ret => loggedIn
                 /\ lastOp' = [Op("DELETE /api/testcases/:id", id, 0, "",
                                  o.ret, failAt)
                                 EXCEPT !.reply = IF o.ret /\ loggedIn
                                                    THEN 200 ELSE 500,
                                        !.logFail = logFail]
    /\ UNCHANGED << test_versions, test_case_folders, folders, test_runs,
                    test_run_results, tcSeq, stepSeq, versionSeq, folderSeq,
                    runSeq, resultSeq, memVars, now, nUpdates, calls >>

\* getFolder, getTestRun: select().eq("id", id).single(); an error (a store
\* error, or no row) is logged and undefined is returned.
getFolder(id, fail) ==
  IF fail \/ id \notin Ids(folders) THEN Answer({}, {}, 1)
  ELSE Answer({RowOf(folders, id)}, {}, 1)

getTestRun(id, fail) ==
  IF fail \/ id \notin Ids(test_runs) THEN Answer({}, {}, 1)
  ELSE Answer({RowOf(test_runs, id)}, {}, 1)

\* updateFolder: update(data).eq("id", id).select().single(); an error (a
\* store error, or no row) is logged and undefined is returned.
updateFolder(id, data, fail) ==
  IF fail \/ id \notin Ids(folders)
    THEN [ret |-> FALSE, folders |-> folders]
    ELSE [ret |-> TRUE,
          folders |-> { IF r.id = id THEN Merge(r, data) ELSE r :
                          r \in folders }]

\* What a route does after its storage call: read req.user.id (a TypeError
\* when nobody is logged in, which the route's catch answers) and call
\* logActivity without awaiting it.
LogAs(loggedIn, logFail) ==
  IF loggedIn THEN LogUnawaited(logFail)
  ELSE /\ ~logFail
       /\ UNCHANGED logVars

\* POST /api/testcases/:id/folders: 404 when the test case or the folder is
\* not found; the call of assignTestCaseToFolder is commented out; the
\* activity is logged; res.status(201).json(result) then refers to a
\* variable that does not exist, and the catch answers 400.
AssignFolderRoute ==
  \E tc \in 1..MaxTc, f \in 1..MaxFolder, failAt \in 0..2,
     loggedIn \in BOOLEAN, logFail \in BOOLEAN :
    LET found == /\ getTestCase(tc, failAt = 1).data # {}
                 /\ getFolder(f, failAt = 2).data # {}
    IN /\ activity_logs + unhandledRejections < MaxLogs
       /\ failAt = 2 => getTestCase(tc, FALSE).data # {}
       /\ IF found THEN LogAs(loggedIn, logFail)
          ELSE /\ loggedIn /\ ~logFail
               /\ UNCHANGED logVars
       /\ lastOp' = [Op("POST /api/testcases/:id/folders", tc, f, "", FALSE,
                        failAt)
                       EXCEPT !.reply = IF found THEN 400 ELSE 404,
                              !.logFail = logFail]
       /\ UNCHANGED << dbVars, memVars, calls, now, nUpdates >>

\* PUT /api/folders/:id: 404 when getFolder finds nothing; updateFolder with
\* the request body; the activity is logged and the answer of updateFolder
\* is the reply, whatever it is.
UpdateFolderRoute ==
  \E id \in 1..MaxFolder, failAt \in 0..2, loggedIn \in BOOLEAN,
     logFail \in BOOLEAN :
    LET found == getFolder(id, failAt = 1).data # {}
        o == updateFolder(id, [name |-> "Renamed"], failAt = 2)
    IN /\ activity_logs + unhandledRejections < MaxLogs
       /\ failAt = 2 => getFolder(id, FALSE).data # {}
       /\ folders' = IF found THEN o.folders ELSE folders
       /\ IF found THEN LogAs(loggedIn, logFail)
          ELSE /\ loggedIn /\ ~logFail
               /\ UNCHANGED logVars
       /\ lastOp' = [Op("PUT /api/folders/:id", id, 0, "", found /\ o.ret,
                        failAt)
                       EXCEPT !.reply = IF ~found THEN 404
                                        ELSE IF loggedIn THEN 200 ELSE 400,
                              !.logFail = logFail]
       /\ UNCHANGED << test_cases, test_steps, test_versions,
                       test_case_folders, test_runs, test_run_results, tcSeq,
                       stepSeq, versionSeq, folderSeq, runSeq, resultSeq,
                       memVars, calls, now, nUpdates >>

\* PUT /api/runs/:id/complete: 404 when getTestRun finds nothing;
\* completeTestRun; the activity is logged and the answer of completeTestRun
\* is the reply, whatever it is.  failAt: 1 = getTestRun, 2 and 3 = the
\* round trips of completeTestRun.
CompleteRunRoute ==
  \E id \in 1..(MaxRun + 1), failAt \in 0..3, loggedIn \in BOOLEAN,
     logFail \in BOOLEAN :
    LET found == getTestRun(id, failAt = 1).data # {}
        o == completeTestRun(id, IF failAt > 1 THEN failAt - 1 ELSE 0)
    IN /\ activity_logs + unhandledRejections < MaxLogs
       /\ failAt > 1 => getTestRun(id, FALSE).data # {}
       /\ test_runs' = IF found THEN o.runs ELSE test_runs
       /\ IF found THEN LogAs(loggedIn, logFail)
          ELSE /\ loggedIn /\ ~logFail
               /\ UNCHANGED logVars
       /\ lastOp' = [Op("PUT /api/runs/:id/complete", id, 0, "",
                        found /\ o.ret, failAt)
                       EXCEPT !.reply = IF ~found THEN 404
                                        ELSE IF loggedIn THEN 200 ELSE 500,
                              !.logFail = logFail]
       /\ UNCHANGED << test_cases, test_steps, test_versions,
                       test_case_folders, folders, test_run_results, tcSeq,
                       stepSeq, versionSeq, folderSeq, runSeq, resultSeq,
                       memVars, calls, now, nUpdates >>

\* PUT /api/testcases/:id: 404 when getTestCase finds nothing; the body
\* without its steps, with created_by set to the id of the acting user (a
\* TypeError, answered 400, when nobody is logged in), goes to
\* updateTestCase; the activity log reads title and version of the result
\* (a TypeError, answered 400, when updateTestCase returned undefined).
\* user 0: nobody is logged in.  failAt: 1 = the test case read, 2 = the
\* row update.
PutTestCaseRoute ==
  \E id \in 1..MaxTc, body \in TitlePatches, user \in {0} \cup Users,
     failAt \in 0..2, logFail \in BOOLEAN :
    LET found == getTestCase(id, failAt = 1).data # {}
        called == found /\ user # 0
        data == [title |-> body.title, created_by |-> user]
        o == updateTestCase(id, data, FALSE, << >>,
                            IF failAt = 2 THEN 1 ELSE 0)
        done == called /\ o.ret
    IN /\ activity_logs + unhandledRejections < MaxLogs
       /\ nUpdates[id] < MaxUpdates
       /\ failAt = 2 => (getTestCase(id, FALSE).data # {} /\ user # 0)
       /\ test_cases' = IF called THEN o.cases ELSE test_cases
       /\ test_steps' = IF called THEN o.steps ELSE test_steps
       /\ nUpdates' = IF done THEN [nUpdates EXCEPT ![id] = @ + 1]
                      ELSE nUpdates
       /\ IF done THEN LogUnawaited(logFail)
          ELSE /\ ~logFail
               /\ UNCHANGED logVars
       /\ lastOp' = [Op("PUT /api/testcases/:id", id, user, "", done, failAt)
                       EXCEPT !.reply = IF ~found THEN 404
                                        ELSE IF done THEN 200 ELSE 400,
                              !.logFail = logFail]
       /\ UNCHANGED << test_versions, test_case_folders, folders, test_runs,
                       test_run_results, tcSeq, stepSeq, versionSeq, folderSeq,
                       runSeq, resultSeq, memVars, calls, now >>

\* ------------------------------------------- the two adapters side by side

\* The same call made on SupabaseStorage (the store answering every round
\* trip) and on MemStorage; lastOp keeps both return values (ret, memRet).

BothRemoveTestCaseFromFolder ==
  \E tc \in 1..MaxTc, f \in 1..MaxFolder :
    LET d == removeTestCaseFromFolder(tc, f, FALSE)
        m == memRemoveTestCaseFromFolder(tc, f)
    IN /\ test_case_folders' = d.assoc
       /\ memTestCaseFolders' = m.sets
       /\ lastOp' = [Op("both.removeTestCaseFromFolder", tc, f, "", d.ret, 0)
                       EXCEPT !.memRet = m.ret]
       /\ UNCHANGED << test_cases, test_steps, test_versions, folders,
                       test_runs, test_run_results, tcSeq, stepSeq, versionSeq,
                       folderSeq, runSeq, resultSeq, memTestCases, memTestRuns,
                       memTestRunResults, mem_test_case_id, mem_testRunId,
                       mem_test_run_result_id, mem_testCaseFolderId, now,
                       nUpdates, logVars, calls, memEntityVars >>

BothCreateTestRun ==
  /\ runSeq <= MaxRun
  /\ mem_testRunId <= MaxMemRun
  /\ test_runs' = createTestRun(FALSE).runs
  /\ runSeq' = runSeq + 1
  /\ memTestRuns' = memTestRuns \cup {memCreateTestRun}
  /\ mem_testRunId' = mem_testRunId + 1
  /\ lastOp' = Op("both.createTestRun", runSeq, mem_testRunId, "", TRUE, 0)
  /\ UNCHANGED << test_cases, test_steps, test_versions, test_case_folders,
                  folders, test_run_results, tcSeq, stepSeq, versionSeq,
                  folderSeq, resultSeq, memTestCases, memTestRunResults,
                  mem_test_case_id, mem_test_run_result_id, memFolderVars,
                  now, nUpdates, logVars, calls, memEntityVars >>

BothCreateTestRunResult ==
  \E runId \in 1..(MaxRun + 1), tc \in 1..MaxTc, s \in ResultStatuses :
    /\ resultSeq <= MaxResults
    /\ MemResultCount < MaxMemResults
    /\ LET result == [runId |-> runId, test_case_id |-> tc, status |-> s]
           d == createTestRunResult(result, 0)
           m == memCreateTestRunResult(result, now)
       IN /\ test_run_results' = d.results
          /\ test_cases' = d.cases
          /\ resultSeq' = IF d.ret THEN resultSeq + 1 ELSE resultSeq
          /\ memTestRunResults' = m.results
          /\ memTestCases' = m.cases
          /\ mem_test_run_result_id' = mem_test_run_result_id + 1
          /\ lastOp' = [Op("both.createTestRunResult", tc, runId, s, d.ret, 0)
                          EXCEPT !.memRet = m.ret, !.at = now]
    /\ UNCHANGED << test_steps, test_versions, test_case_folders, folders,
                    test_runs, tcSeq, stepSeq, versionSeq, folderSeq, runSeq,
                    memTestRuns, mem_test_case_id, mem_testRunId,
                    memFolderVars, now, nUpdates, logVars, calls,
                    memEntityVars >>

\* --------------------------------------------------------- specifications

\* The version history of the persistent adapter.
NextVersions ==
  \/ CreateBareTestCase
  \/ UpdateTitle
  \/ CreateTestVersion
  \/ RevertToVersion

SpecVersions == Init /\ [][NextVersions]_vars

\* Updates of the persistent adapter, with and without steps.
NextUpdates ==
  \/ CreateTestCase
  \/ UpdateTestCase

SpecUpdates == Init /\ [][NextUpdates]_vars

\* Replacing the steps of test cases of the persistent adapter.
NextSteps ==
  \/ CreateTestCase
  \/ UpdateSteps

SpecSteps == Init /\ [][NextSteps]_vars

\* Steps as the caller numbers them.
NextStepNumbers ==
  \/ CreateNumberedTestCase
  \/ UpdateSteps

SpecStepNumbers == Init /\ [][NextStepNumbers]_vars

\* Deleting test cases of the persistent adapter.
NextDelete ==
  \/ CreateTestCase
  \/ CreateFolder
  \/ InsertTestCaseFolder
  \/ DeleteTestCase

SpecDelete == Init /\ [][NextDelete]_vars

\* Run results of the persistent adapter.
NextResults ==
  \/ CreateBareTestCase
  \/ CreateTestRun
  \/ CreateTestRunResult
  \/ Tick

SpecResults == Init /\ [][NextResults]_vars

\* Run results and edits of the persistent adapter when the store answers
\* every round trip of a result recording.
NextStatus ==
  \/ CreateBareTestCase
  \/ UpdateFields
  \/ CreateTestRun
  \/ RecordResult

SpecStatus == Init /\ [][NextStatus]_vars

\* Run results of the in-memory adapter.
NextMem ==
  \/ MemCreateTestRun
  \/ MemCreateTestRunResult
  \/ Tick

SpecMem == Init /\ [][NextMem]_vars

\* The same calls on both adapters; the persistent store is given test
\* cases (MemStorage's constructor has created its own).
NextBoth ==
  \/ CreateBareTestCase
  \/ BothCreateTestRun
  \/ BothCreateTestRunResult
  \/ BothRemoveTestCaseFromFolder
  \/ Tick

SpecBoth == Init /\ [][NextBoth]_vars

\* Runs of both adapters: created, executed for a while, completed.
NextRuns ==
  \/ CreateTestRun
  \/ CompleteTestRun
  \/ MemCreateTestRun
  \/ MemCompleteTestRun
  \/ Elapse

SpecRuns == Init /\ [][NextRuns]_vars

\* The routes that create and delete test cases.
NextRoutes ==
  \/ PostTestCase
  \/ DeleteTestCaseRoute

SpecRoutes == Init /\ [][NextRoutes]_vars

\* Folder membership of the persistent adapter.
NextFolders ==
  \/ CreateBareTestCase
  \/ CreateFolder
  \/ InsertTestCaseFolder
  \/ RemoveTestCaseFromFolder

SpecFolders == Init /\ [][NextFolders]_vars

\* Folder membership of the in-memory adapter.
NextMemFolders ==
  \/ MemAssignTestCaseToFolder
  \/ MemRemoveTestCaseFromFolder

SpecMemFolders == Init /\ [][NextMemFolders]_vars

\* Test cases created with their steps and read back.
NextReads ==
  \/ CreateTestCase
  \/ GetTestCase
  \/ GetTestSteps
  \/ GetTestCaseWithSteps

SpecReads == Init /\ [][NextReads]_vars

\* Test cases of several statuses, some in folders, listed with filters.
NextList ==
  \/ CreateBareTestCase
  \/ CreateFolder
  \/ InsertTestCaseFolder
  \/ UpdateStatus
  \/ ListTestCases

SpecList == Init /\ [][NextList]_vars

\* One updateTestCase call of each of two callers, round trip by round
\* trip, on the test cases created before.
NextConcurrent ==
  \/ CreateBareTestCase
  \/ UpdateCall
  \/ UpdateRow
  \/ UpdateDeleteSteps
  \/ UpdateInsertSteps

SpecConcurrent == Init /\ [][NextConcurrent]_vars

\* MemStorage's entities created and folders deleted.
NextMemIds ==
  \/ MemCreateFolder
  \/ MemDeleteFolder
  \/ MemCreateTestCase
  \/ MemCreateTestRun

SpecMemIds == Init /\ [][NextMemIds]_vars

\* MemStorage's folders created and deleted, test cases assigned to them.
NextMemFolderLife ==
  \/ MemCreateFolder
  \/ MemDeleteFolder
  \/ MemAssignTestCaseToFolder

SpecMemFolderLife == Init /\ [][NextMemFolderLife]_vars

\* The routes that log an activity after an assignment, an update, a
\* completion or a deletion.
NextAudit ==
  \/ CreateBareTestCase
  \/ CreateFolder
  \/ CreateTestRun
  \/ AssignFolderRoute
  \/ UpdateFolderRoute
  \/ CompleteRunRoute
  \/ DeleteTestCaseRoute

SpecAudit == Init /\ [][NextAudit]_vars

\* Snapshots written around updates, and the history read back.
NextHistory ==
  \/ CreateBareTestCase
  \/ CreateTestVersion
  \/ UpdateTitle
  \/ GetVersionsRoute

SpecHistory == Init /\ [][NextHistory]_vars

\* Test cases created and then edited through the route by any user.
NextPut ==
  \/ CreateBareTestCase
  \/ PutTestCaseRoute

SpecPut == Init /\ [][NextPut]_vars

\* ----------------------------------------------------------------- claims

Exists(id) == id \in Ids(test_cases)

\* The step just taken is a call of storage method `op` on test case `id`
\* (every method records its call in lastOp; the clock alone leaves it).
Called(op, id) ==
  /\ lastOp'.op = op
  /\ lastOp'.id = id
  /\ now' = now

\* C1: every existing test case has version = 1 + the number of its
\* snapshots, and after N successful updateTestCase calls on a freshly
\* created test case its version is N + 1 (so exactly N snapshots exist).
C1_VersionCountsUpdates ==
  \A r \in test_cases :
    /\ r.version = 1 + Cardinality(VersionsOf(r.id))
    /\ r.version = nUpdates[r.id] + 1

\* C2: every successful updateTestCase records exactly one snapshot, holding
\* the pre-update field values and tagged with the old version + 1.
C2_UpdateRecordsSnapshot ==
  [][\A id \in 1..MaxTc :
       (Called("updateTestCase", id) /\ lastOp'.ret) =>
         \E v \in test_versions' :
           /\ test_versions' = test_versions \cup {v}
           /\ v \notin test_versions
           /\ v.test_case_id = id
           /\ v.version = RowOf(test_cases, id).version + 1
           /\ v.data = Content(RowOf(test_cases, id))]_vars

\* C3: after revertToVersion(tc, v) succeeds on a test case of live version
\* n, the fields are those of the snapshot of version v and the live version
\* is n + 1.
C3_RevertRestoresAndBumps ==
  [][\A id \in 1..MaxTc :
       (Called("revertToVersion", id) /\ lastOp'.ret /\ Exists(id)) =>
         /\ \E s \in VersionsOf(id) :
              /\ s.version = lastOp'.arg
              /\ Content(RowOf(test_cases', id)) = s.data
         /\ RowOf(test_cases', id).version = RowOf(test_cases, id).version + 1]_vars

\* C4: a revertToVersion(id, v) that succeeds has applied a snapshot, and the
\* snapshot it applied is one whose stored version number is v.
C4_RevertMatchesVersionNumber ==
  (lastOp.op = "revertToVersion" /\ lastOp.ret) =>
    /\ lastOp.applied # 0
    /\ RowOf(test_versions, lastOp.applied).version = lastOp.arg

\* C5: revertToVersion(id, v) reports failure and leaves the test cases
\* unchanged when the test case does not exist or has no snapshot of
\* version v.
C5_RevertNotFound ==
  [][\A id \in 1..MaxTc :
       ( /\ Called("revertToVersion", id)
         /\ \/ ~Exists(id)
            \/ ~\E s \in VersionsOf(id) : s.version = lastOp'.arg ) =>
         /\ ~lastOp'.ret
         /\ test_cases' = test_cases]_vars

\* C6: deleteTestCase(id) on an existing test case, when the store suffers
\* no I/O failure, removes the steps and the folder associations of id
\* together with the row and reports success; after a reported success
\* nothing references id and id is not found.
C6_CascadeDelete ==
  [][\A id \in 1..MaxTc :
       ( /\ Called("deleteTestCase", id)
         /\ Exists(id) ) =>
         /\ lastOp'.ret =>
              /\ ~\E s \in test_steps' : s.test_case_id = id
              /\ ~\E a \in test_case_folders' : a.test_case_id = id
              /\ id \notin Ids(test_cases')
         /\ lastOp'.fail = 0 =>
              /\ lastOp'.ret
              /\ ~\E a \in test_case_folders' : a.test_case_id = id]_vars

\* C7: deleteTestCase(id) reports failure whenever one of its two round trips
\* fails; when deleting the steps fails nothing is deleted; a failed call
\* never deletes the row; and success is never reported while the row
\* remains.
C7_DeleteReportsFailure ==
  [][\A id \in 1..MaxTc :
       Called("deleteTestCase", id) =>
         /\ lastOp'.fail # 0 => ~lastOp'.ret
         /\ lastOp'.fail = 1 =>
              (test_cases' = test_cases /\ test_steps' = test_steps)
         /\ ~lastOp'.ret => test_cases' = test_cases
         /\ lastOp'.ret => id \notin Ids(test_cases')]_vars

\* C7 witness: the row delete failed after the steps were deleted; the call
\* returned false and the row is still there, without steps.
C7_Witness ==
  /\ lastOp.op = "deleteTestCase"
  /\ lastOp.fail = 2
  /\ ~lastOp.ret
  /\ Exists(lastOp.id)
  /\ StepsOf(lastOp.id) = {}
  /\ stepSeq > 1
  /\ FoldersOf(lastOp.id) = {}

\* C8: right after a result recording for test case tc with status s in
\* which every round trip succeeded, tc has status s and last_run equal to
\* the result's execution time.
C8_StatusAndLastRun ==
  ( /\ lastOp.op = "createTestRunResult"
    /\ lastOp.ret
    /\ lastOp.fail = 0 ) =>
    /\ RowOf(test_cases, lastOp.id).status = lastOp.st
    /\ RowOf(test_cases, lastOp.id).last_run = lastOp.at

\* The most recently created result of a test case.
LatestResult(id) ==
  CHOOSE r \in ResultsOf(id) : \A q \in ResultsOf(id) : q.id <= r.id

\* C9: a test case with at least one result has the status of its most
\* recently created result.
C9_StatusIsLatestResult ==
  \A r \in test_cases :
    ResultsOf(r.id) # {} => r.status = LatestResult(r.id).status

\* C10: no result is stored for a run or a test case that does not exist.
C10_ResultNeedsRunAndCase ==
  /\ \A r \in test_run_results :
       r.runId \in Ids(test_runs) /\ r.test_case_id \in Ids(test_cases)
  /\ \A k \in DOMAIN memTestRunResults :
       \A i \in 1..Len(memTestRunResults[k]) :
         /\ memTestRunResults[k][i].runId \in Ids(memTestRuns)
         /\ memTestRunResults[k][i].test_case_id \in Ids(memTestCases)

\* The pairs (test case, folder) MemStorage holds.
MemPairs ==
  { <<tc, f>> \in (1..(MemFirstFreeTcId - 1)) \X (1..MemFolderCount) :
      MemAssigned(tc, f) }

\* C11: the pair (test case, folder) is unique: any assign call (the first
\* for the pair or a repeated one) raises no error, leaves the pair assigned
\* exactly once and leaves every other pair as it was.
C11_AssignKeepsPairUnique ==
  [][\A tc \in 1..(MemFirstFreeTcId - 1) :
       Called("mem.assignTestCaseToFolder", tc) =>
         /\ lastOp'.ret
         /\ MemPairs' = MemPairs \cup {<<tc, lastOp'.arg>>}]_vars

\* C11 witness: an assign call for a pair that was already assigned has
\* returned, and the pair is assigned.
C11_Witness ==
  /\ lastOp.op = "mem.assignTestCaseToFolder"
  /\ lastOp.ret
  /\ lastOp.id = 1 /\ lastOp.arg = 1
  /\ MemAssigned(1, 1)
  /\ mem_testCaseFolderId > MemFirstFreeAssocId + 1

\* C12: assigning a pair again returns the association record the previous
\* assignment of the pair returned (the same association id).
C12_ReassignReturnsExisting ==
  [][\A tc \in 1..(MemFirstFreeTcId - 1) :
       ( /\ lastOp.op = "mem.assignTestCaseToFolder"
         /\ lastOp.id = tc
         /\ Called("mem.assignTestCaseToFolder", tc)
         /\ lastOp'.arg = lastOp.arg ) =>
         lastOp'.applied = lastOp.applied]_vars

\* C13: with no I/O failure, removing a pair returns true exactly when the
\* pair was assigned, on both adapters: removing an unassigned pair returns
\* false and changes no association, removing an assigned pair returns true
\* and leaves it unassigned (so an identical second removal returns false).
C13_RemoveTellsWhetherAssigned ==
  [][/\ \A tc \in 1..MaxTc, f \in 1..MaxFolder :
          ( /\ Called("removeTestCaseFromFolder", tc)
            /\ lastOp'.arg = f
            /\ lastOp'.fail = 0 ) =>
            /\ lastOp'.ret = Assigned(tc, f)
            /\ ~Assigned(tc, f) => test_case_folders' = test_case_folders
            /\ ~Assigned(tc, f)'
     /\ \A tc \in 1..(MemFirstFreeTcId - 1), f \in 1..MemFolderCount :
          ( /\ Called("mem.removeTestCaseFromFolder", tc)
            /\ lastOp'.arg = f ) =>
            /\ lastOp'.ret = MemAssigned(tc, f)
            /\ ~MemAssigned(tc, f) => MemPairs' = MemPairs
            /\ ~MemAssigned(tc, f)']_vars

\* What the caller sees of the stored steps of a test case: step_number
\* and description of each row, without the row ids.
StepContent(id) ==
  { [step_number |-> r.step_number, description |-> r.description] :
      r \in StepsOf(id) }

\* The entries of a steps array.
Entries(steps) ==
  { steps[i] : i \in 1..Len(steps) }

\* C14: a successful updateTestCase without a steps argument leaves the
\* steps of the test case untouched; with a steps array (the empty one
\* included) the test case has exactly the supplied steps afterwards, in
\* new rows, and none of the previous rows.
C14_StepsKeptOrReplaced ==
  [][\A id \in 1..MaxTc :
       (Called("updateTestCase", id) /\ lastOp'.ret) =>
         IF lastOp'.hasSteps
           THEN /\ StepContent(id)' = Entries(lastOp'.steps)
                /\ Cardinality(StepsOf(id)') = Len(lastOp'.steps)
                /\ StepsOf(id)' \cap StepsOf(id) = {}
           ELSE /\ StepsOf(id)' = StepsOf(id)
                /\ test_steps' = test_steps]_vars

\* C14 witness: an update with the empty steps array succeeded on a test
\* case, which has no steps now although step rows were created before.
C14_Witness ==
  /\ lastOp.op = "updateTestCase"
  /\ lastOp.ret
  /\ lastOp.hasSteps
  /\ lastOp.steps = << >>
  /\ Exists(lastOp.id)
  /\ StepsOf(lastOp.id) = {}
  /\ test_steps = {}
  /\ stepSeq > 1

\* C15: after a successful create or update of a test case with a steps
\* array of length k, the stored steps of the test case are numbered 1..k,
\* each number once, the i-th supplied step under number i.
C15_StepsNumberedByPosition ==
  [][\A id \in 1..MaxTc :
       ( /\ Called("createTestCase", id) \/ Called("updateTestCase", id)
         /\ lastOp'.ret
         /\ lastOp'.hasSteps ) =>
         /\ Cardinality(StepsOf(id)') = Len(lastOp'.steps)
         /\ \A i \in 1..Len(lastOp'.steps) :
              \E r \in StepsOf(id)' :
                /\ r.step_number = i
                /\ r.description = lastOp'.steps[i].description]_vars

\* C16: a second successful updateTestCase with the same steps array as the
\* successful update before it leaves the same steps (numbers, descriptions,
\* count); only the row ids differ.
C16_StepReplacementIdempotent ==
  [][\A id \in 1..MaxTc :
       (Called("updateTestCase", id) /\ lastOp'.again /\ lastOp'.ret) =>
         /\ StepContent(id)' = StepContent(id)
         /\ Cardinality(StepsOf(id)') = Cardinality(StepsOf(id))
         /\ (lastOp'.steps # << >> => StepsOf(id)' # StepsOf(id))]_vars

\* C16 witness: the second of two successful updates with the same
\* non-empty steps array has returned, and the test case has those steps.
C16_Witness ==
  /\ lastOp.op = "updateTestCase"
  /\ lastOp.ret /\ lastOp.again
  /\ lastOp.steps # << >>
  /\ StepContent(lastOp.id) = Entries(lastOp.steps)

\* C17: updateTestCase on an id that no test case has reports not-found
\* and writes nothing: no test case row, step or snapshot changes.
C17_UpdateMissingWritesNothing ==
  [][\A id \in 1..MaxTc :
       (Called("updateTestCase", id) /\ ~Exists(id)) =>
         /\ ~lastOp'.ret
         /\ test_cases' = test_cases
         /\ test_steps' = test_steps
         /\ test_versions' = test_versions
         /\ stepSeq' = stepSeq]_vars

\* C17 witness: an update with a non-empty steps array on an id that no
\* test case has returned not-found though the store reported no I/O
\* failure, and another test case's steps are there.
C17_Witness ==
  /\ lastOp.op = "updateTestCase"
  /\ ~lastOp.ret
  /\ lastOp.fail = 0
  /\ ~Exists(lastOp.id)
  /\ lastOp.hasSteps /\ Len(lastOp.steps) > 0
  /\ test_steps # {}

\* C18: with no I/O failure, a call made on both adapters returns the same
\* result on both (the same success or not-found outcome, the same removal
\* result), and after a result recording that both accepted the test case
\* reads the same status and last_run on both.
C18_AdaptersAgree ==
  /\ lastOp.ret = lastOp.memRet
  /\ ( /\ lastOp.op = "both.createTestRunResult"
       /\ lastOp.ret /\ lastOp.memRet
       /\ lastOp.id \in Ids(memTestCases) ) =>
       /\ RowOf(test_cases, lastOp.id).status =
            RowOf(memTestCases, lastOp.id).status
       /\ RowOf(test_cases, lastOp.id).last_run =
            RowOf(memTestCases, lastOp.id).last_run

\* The replies that report success to the caller.
SuccessReplies == {200, 201}

\* C19: when the storage operation of a route succeeded and logging the
\* activity failed, the route still reports success to its caller, and the
\* logging failure is caught: no promise rejection is left unhandled.
C19_LogFailureSwallowed ==
  [][\A id \in 1..MaxTc :
       ( /\ \/ Called("POST /api/testcases", id)
            \/ Called("DELETE /api/testcases/:id", id)
         /\ lastOp'.ret
         /\ lastOp'.logFail ) =>
         /\ lastOp'.reply \in SuccessReplies
         /\ unhandledRejections' = unhandledRejections]_vars

\* What completeTestRun must leave in the row of a run it completed at the
\* instant now: the row before is old, the row after is new.
Completed(old, new) ==
  /\ new.id = old.id
  /\ new.status = "completed"
  /\ new.complete_at = now
  /\ new.duration = (getTime(now) - getTime(old.started_at)) \div MsPerSecond
  /\ new.started_at = old.started_at
  /\ old.duration # NullDuration => new.duration >= old.duration

ReadTrips ==
  [getTestCase |-> 1, getTestSteps |-> 1, getTestCaseWithSteps |-> 2]

\* C21: a store error during a read is surfaced to the caller as a failure
\* (the call is rejected), which the caller can tell from not-found and
\* from an empty result; and no read repeats a round trip to the store.
C21_ReadFailureSurfaced ==
  [][\A id \in 1..MaxTc : \A op \in DOMAIN ReadTrips :
       Called(op, id) =>
         /\ lastOp'.fail # 0 => lastOp'.thrown
         /\ lastOp'.trips <= ReadTrips[op]]_vars

\* The test cases that satisfy the filters: the status, when one is given,
\* and an association with the folder, when one is given.
Matching(status, folderId) ==
  { r \in test_cases :
      /\ status # "" => r.status = status
      /\ folderId # 0 => Assigned(r.id, folderId) }

\* C22: listing test cases with filters, the store answering, returns
\* exactly the test cases that satisfy every filter supplied (status equal
\* to the given one and an association with the given folder); a filter
\* that is omitted does not constrain, and without filters all test cases
\* are returned.
C22_ListAppliesEveryFilter ==
  [][( /\ Called("GET /api/testcases", 0)
       /\ lastOp'.fail = 0 ) =>
       lastOp'.rows = Matching(lastOp'.st, lastOp'.arg)]_vars

\* Both callers' calls were in flight together, updated test case id and
\* returned the test case.
BothUpdated(id) ==
  \A p \in Callers :
    /\ calls[p].pc = "done" /\ calls[p].ret
    /\ calls[p].id = id /\ calls[p].conc

\* The caller whose row update the store served last.
LastWriter == CHOOSE p \in Callers : calls[p].wrote = Cardinality(Callers)

\* C23: after two concurrent updateTestCase calls on one test case that
\* both succeeded, the row has the fields of the update written last, and
\* the version of the test case is greater than it was before the two.
C23_LastWriteWinsVersionGrows ==
  \A id \in Ids(test_cases) :
    BothUpdated(id) =>
      /\ \A c \in DOMAIN calls[LastWriter].data :
           RowOf(test_cases, id)[c] = calls[LastWriter].data[c]
      /\ \A p \in Callers : RowOf(test_cases, id).version > calls[p].v0

\* The stored steps of a test case are exactly those of a steps array: as
\* many rows as the array has entries, with the entries' content.
StepsAre(id, steps) ==
  /\ StepContent(id) = Entries(steps)
  /\ Cardinality(StepsOf(id)) = Len(steps)

\* C25: after two concurrent updateTestCase calls on one test case that
\* both supplied steps and both succeeded, the steps of the test case are
\* exactly one of the two arrays: never rows of both, never two rows with
\* one step_number.
C25_ConcurrentStepsNotMixed ==
  \A id \in Ids(test_cases) :
    (BothUpdated(id) /\ \A p \in Callers : calls[p].hasSteps) =>
      /\ \E p \in Callers : StepsAre(id, calls[p].steps)
      /\ \A r1, r2 \in StepsOf(id) :
           r1.step_number = r2.step_number => r1 = r2

\* The rows of one entity type keep the ids the counter gave them: the
\* counter does not go back, an id that appears lies between the counter
\* before and the counter after, and no two rows have one id.
FreshIds(old, new, counter, counterAfter) ==
  /\ counterAfter >= counter
  /\ \A i \in Ids(new) \ Ids(old) : counter <= i /\ i < counterAfter
  /\ \A r \in new : r.id < counterAfter
  /\ \A r1, r2 \in new : r1.id = r2.id => r1 = r2

\* C24: the ids MemStorage assigns grow strictly per entity type and are
\* never used again: every id that appears is at least the counter, which
\* is above every id assigned before (the ids of deleted entities included)
\* and above the new id afterwards.
C24_MemIdsNeverReused ==
  [][/\ FreshIds(memFolders, memFolders', mem_folderId, mem_folderId')
     /\ FreshIds(memTestCases, memTestCases',
                 mem_test_case_id, mem_test_case_id')
     /\ FreshIds(memTestSteps, memTestSteps',
                 mem_testStepId, mem_testStepId')
     /\ FreshIds(memTestRuns, memTestRuns', mem_testRunId, mem_testRunId')
    ]_vars

\* A folder created after a folder with a lower id was deleted: it has the
\* id of the counter, not the freed one.
C24_Witness ==
  /\ lastOp.op = "mem.createFolder"
  /\ lastOp.applied \in Ids(memFolders)
  /\ \E i \in 1..(lastOp.applied - 1) : i \notin Ids(memFolders)
  /\ \E r \in memTestCases : r.id >= MemFirstFreeTcId

\* The folder ids MemStorage may have given out.
MemFolderIds == 1..(MemFirstFreeFolderId + MaxMemFolders - 1)

\* C30: in MemStorage, after deleteFolder(f) returned true no association
\* refers to f (getTestCountByFolder has no entry for f), and a folder
\* created afterwards is in the folders of no test case.
C30_DeletedFolderLeavesNoAssociation ==
  [][\A f \in MemFolderIds :
       /\ (Called("mem.deleteFolder", f) /\ lastOp'.ret) =>
            \A c \in memGetTestCountByFolder(memTestCaseFolders') :
              c.folderId # f
       /\ Called("mem.createFolder", f) =>
            \A tc \in Ids(memTestCases) :
              \A r \in memGetTestCaseFolders(tc, memTestCaseFolders',
                                             memFolders') : r.id # f]_vars

\* The routes of an assignment, an update, a completion and a deletion.
AuditedRoutes ==
  { "POST /api/testcases/:id/folders", "PUT /api/folders/:id",
    "PUT /api/runs/:id/complete", "DELETE /api/testcases/:id" }

\* C26: a route writes an activity record only after its storage operation
\* succeeded: none for an operation that was not performed or that
\* reported failure or not-found.
C26_LogOnlyAfterSuccess ==
  [][( /\ lastOp'.op \in AuditedRoutes
       /\ activity_logs' > activity_logs ) => lastOp'.ret]_vars

\* C27: the history of a test case shows no orphan snapshot: every
\* snapshot the versions route returns has a version number not above the
\* live version of the test case, also when a snapshot was written and the
\* update it belongs to then failed.
C27_NoOrphanSnapshotShown ==
  [][\A id \in 1..MaxTc :
       ( /\ Called("GET /api/testcases/:id/versions", id)
         /\ lastOp'.ret ) =>
         \A v \in lastOp'.rows :
           v.version <= RowOf(test_cases, id).version]_vars

\* C29: created_by of a test case never changes after its creation: no
\* PUT /api/testcases/:id, by whichever user, alters the recorded creator.
C29_CreatorNeverChanges ==
  [][\A id \in Ids(test_cases) \cap Ids(test_cases') :
       RowOf(test_cases', id).created_by
         = RowOf(test_cases, id).created_by]_vars

\* C28: whenever updateTestCase returns undefined, the fields of the test
\* case and its stored steps are as they were before the call, whichever
\* round trip failed (row update, steps delete, steps insert).
C28_FailedUpdateChangesNothing ==
  [][\A id \in 1..MaxTc :
       ( /\ Called("updateTestCase", id)
         /\ ~lastOp'.ret ) =>
         /\ test_cases' = test_cases
         /\ StepsOf(id)' = StepsOf(id)]_vars

Next ==
  \/ PutTestCaseRoute
  \/ GetVersionsRoute
  \/ AssignFolderRoute
  \/ UpdateFolderRoute
  \/ CompleteRunRoute
  \/ MemCreateFolder
  \/ MemDeleteFolder
  \/ MemCreateTestCase
  \/ UpdateCall
  \/ UpdateRow
  \/ UpdateDeleteSteps
  \/ UpdateInsertSteps
  \/ ListTestCases
  \/ GetTestCase
  \/ GetTestSteps
  \/ GetTestCaseWithSteps
  \/ CompleteTestRun
  \/ MemCompleteTestRun
  \/ Elapse
  \/ PostTestCase
  \/ DeleteTestCaseRoute
  \/ BothRemoveTestCaseFromFolder
  \/ BothCreateTestRun
  \/ BothCreateTestRunResult
  \/ RemoveTestCaseFromFolder
  \/ MemAssignTestCaseToFolder
  \/ MemRemoveTestCaseFromFolder
  \/ CreateTestCase
  \/ UpdateTestCase
  \/ DeleteTestCase
  \/ CreateTestVersion
  \/ RevertToVersion
  \/ CreateFolder
  \/ InsertTestCaseFolder
  \/ CreateTestRun
  \/ CreateTestRunResult
  \/ Tick
  \/ MemCreateTestRun
  \/ MemCreateTestRunResult

Spec == Init /\ [][Next]_vars
====
